---- MODULE Spec2Model ----
(***************************************************************************)
(* A model of implement-dns (src/src/lib.rs): the DNS wire codec (header,  *)
(* question, resource record and compressed domain-name decoding, query    *)
(* encoding) as operators over byte sequences, and the iterative resolver  *)
(* `resolve` as a state machine over a stack of call frames.               *)
(*                                                                         *)
(* Bytes are naturals 0..255, a buffer is a sequence of bytes, a cursor    *)
(* position is a 0-based offset into the buffer (std::io::Cursor).         *)
(***************************************************************************)
EXTENDS Integers, Sequences, FiniteSets, TLC

(***************************************************************************)
(* Results.  A Rust Result is Ok (a value and the cursor position after    *)
(* the call) or Err (a std::io::Error, named by its kind or, for           *)
(* ErrorKind::Other, by its message).  Abort is the third outcome the      *)
(* build can produce: the thread does not return at all (a panic, or the   *)
(* stack overflow of a recursion that never ends).                         *)
(***************************************************************************)
Ok(v, p) == [kind |-> "Ok", val |-> v, pos |-> p]

Err(e) == [kind |-> "Err", err |-> e]

Abort(e) == [kind |-> "Abort", err |-> e]

IsOk(r) == r.kind = "Ok"

\* `let x = v;` then the rest F(x): v is worked out once and named.
Let(v, F(_)) == CHOOSE y \in { F(x) : x \in { v } } : TRUE

\* `let x = r?;` then the rest F(x): an Err or Abort r is the outcome at once.
Then(r, F(_)) == CHOOSE y \in { (IF IsOk(x) THEN F(x) ELSE x) : x \in { r } } : TRUE

None == [some |-> FALSE]

Some(v) == [some |-> TRUE, v |-> v]

(***************************************************************************)
(* Integers of the wire format, big-endian.                                *)
(***************************************************************************)
U16ToBeBytes(n) == << (n \div 256) % 256, n % 256 >>

U16FromBeBytes(b) == b[1] * 256 + b[2]

U32FromBeBytes(b) == ((b[1] * 256 + b[2]) * 256 + b[3]) * 256 + b[4]

\* `x as u8`: a usize truncated to its low 8 bits.
AsU8(n) == n % 256

(***************************************************************************)
(* std::io::Read::read_exact on a Cursor<&[u8]>: n bytes from the cursor   *)
(* position, or UnexpectedEof when fewer remain (a position past the end   *)
(* of the buffer leaves nothing to read).                                  *)
(***************************************************************************)
read_exact(data, pos, n) ==
    IF n = 0 THEN Ok(<< >>, pos)
    ELSE IF pos + n <= Len(data) THEN Ok(SubSeq(data, pos + 1, pos + n), pos + n)
    ELSE Err("UnexpectedEof")

(***************************************************************************)
(* TypeField and ClassField: the enum is modelled by its u16 discriminant. *)
(***************************************************************************)
TypeField_A == 1

TypeField_NS == 2

TypeField_CNAME == 5

TypeField_AAAA == 28

ClassField_IN == 1

TypeFieldValues == (1..16) \cup {28}

ClassFieldValues == 1..4

\* A decoder that takes every code for a type.
TypeField_from_bytes_Lenient(b) == [kind |-> "Ok", val |-> U16FromBeBytes(b)]

TypeField_from_bytes(b) ==
    LET num == U16FromBeBytes(b)
    IN  IF num \in TypeFieldValues THEN [kind |-> "Ok", val |-> num]
        ELSE Err("Invalid TYPE field")

TypeField_from_reader(data, pos) ==
    Then(read_exact(data, pos, 2), LAMBDA bytes :
    Then(TypeField_from_bytes(bytes.val), LAMBDA t : Ok(t.val, bytes.pos)))

ClassField_from_bytes(b) ==
    LET num == U16FromBeBytes(b)
    IN  IF num \in ClassFieldValues THEN [kind |-> "Ok", val |-> num]
        ELSE Err("Invalid CLASS field")

ClassField_from_reader(data, pos) ==
    Then(read_exact(data, pos, 2), LAMBDA bytes :
    Then(ClassField_from_bytes(bytes.val), LAMBDA c : Ok(c.val, bytes.pos)))

(***************************************************************************)
(* DNSHeader.                                                              *)
(***************************************************************************)
DNS_HEADER_SIZE == 12

DNSHeader_to_bytes(h) ==
    U16ToBeBytes(h.id) \o U16ToBeBytes(h.flags) \o U16ToBeBytes(h.num_questions)
        \o U16ToBeBytes(h.num_answers) \o U16ToBeBytes(h.num_authorities)
        \o U16ToBeBytes(h.num_additionals)

DNSHeader_from_bytes(b) ==
    [id              |-> U16FromBeBytes(SubSeq(b, 1, 2)),
     flags           |-> U16FromBeBytes(SubSeq(b, 3, 4)),
     num_questions   |-> U16FromBeBytes(SubSeq(b, 5, 6)),
     num_answers     |-> U16FromBeBytes(SubSeq(b, 7, 8)),
     num_authorities |-> U16FromBeBytes(SubSeq(b, 9, 10)),
     num_additionals |-> U16FromBeBytes(SubSeq(b, 11, 12))]

DNSHeader_from_reader(data, pos) ==
    Then(read_exact(data, pos, DNS_HEADER_SIZE), LAMBDA bytes :
         Ok(DNSHeader_from_bytes(bytes.val), bytes.pos))

(***************************************************************************)
(* DomainName.  A name is its string, a sequence of bytes (UTF-8).         *)
(***************************************************************************)
Dot == 46

\* str::split("."): the parts between the dots; "" splits into one empty part.
RECURSIVE SplitFrom(_, _)
SplitFrom(s, start) ==
    LET dots == { i \in start..Len(s) : s[i] = Dot }
    IN  IF dots = { } THEN << SubSeq(s, start, Len(s)) >>
        ELSE LET d == CHOOSE i \in dots : \A j \in dots : i <= j
             IN  << SubSeq(s, start, d - 1) >> \o SplitFrom(s, d + 1)

Split(s) == SplitFrom(s, 1)

\* [Vec<u8>]::join(&b'.'): the parts with one separator between neighbours.
RECURSIVE Join(_)
Join(parts) ==
    IF Len(parts) = 0 THEN << >>
    ELSE IF Len(parts) = 1 THEN parts[1]
    ELSE parts[1] \o << Dot >> \o Join(Tail(parts))

RECURSIVE EncodeParts(_)
EncodeParts(parts) ==
    IF Len(parts) = 0 THEN << >>
    ELSE << AsU8(Len(parts[1])) >> \o parts[1] \o EncodeParts(Tail(parts))

DomainName_to_bytes(string) == EncodeParts(Split(string)) \o << 0 >>

(***************************************************************************)
(* bytes_from_reader and bytes_from_reader_compressed call each other.     *)
(* depth counts the compression pointers followed so far in this chain of  *)
(* calls.  Each call of the chain starts at a pointer target it could read *)
(* a byte from, so a target below Len(data); a chain of more than          *)
(* Len(data) nested calls therefore starts twice at the same offset, and   *)
(* as the decoder's path depends on the offset alone it nests for ever:    *)
(* the thread overflows its stack.                                         *)
(***************************************************************************)
RECURSIVE bytes_from_reader_loop(_, _, _, _)
RECURSIVE bytes_from_reader_compressed(_, _, _, _)

bytes_from_reader(data, pos, depth) == bytes_from_reader_loop(data, pos, << >>, depth)

bytes_from_reader_compressed(length, data, pos, depth) ==
    Then(read_exact(data, pos, 1), LAMBDA offset_bytes :
         LET pointer == (length % 64) * 256 + offset_bytes.val[1]
             curr_position == offset_bytes.pos
         IN  IF depth > Len(data) THEN Abort("stack overflow")
             ELSE Then(bytes_from_reader(data, pointer, depth + 1), LAMBDA bytes :
                       Ok(bytes.val, curr_position)))

bytes_from_reader_loop(data, pos, bytes, depth) ==
    Then(read_exact(data, pos, 1), LAMBDA length_bytes :
         LET length == length_bytes.val[1]
             is_compressed == (length \div 64) % 4 # 0
         IN  IF is_compressed
             THEN Then(bytes_from_reader_compressed(length, data, length_bytes.pos, depth),
                       LAMBDA c : Ok(Join(Append(bytes, c.val)), c.pos))
             ELSE IF length > 0
             THEN Then(read_exact(data, length_bytes.pos, length), LAMBDA buf :
                       bytes_from_reader_loop(data, buf.pos, Append(bytes, buf.val), depth))
             ELSE Ok(Join(bytes), length_bytes.pos))

(***************************************************************************)
(* String::from_utf8: whether the bytes are well-formed UTF-8 (the         *)
(* encoding table of the Unicode standard, as core::str::from_utf8 has     *)
(* it).                                                                    *)
(***************************************************************************)
IsCont(s, i, lo, hi) == i <= Len(s) /\ s[i] >= lo /\ s[i] <= hi

RECURSIVE IsUtf8From(_, _)
IsUtf8From(s, i) ==
    IF i > Len(s) THEN TRUE
    ELSE LET b == s[i]
         IN  IF b < 128 THEN IsUtf8From(s, i + 1)
             ELSE IF b >= 194 /\ b <= 223
             THEN IsCont(s, i + 1, 128, 191) /\ IsUtf8From(s, i + 2)
             ELSE IF b >= 224 /\ b <= 239
             THEN /\ IsCont(s, i + 1, IF b = 224 THEN 160 ELSE 128,
                                      IF b = 237 THEN 159 ELSE 191)
                  /\ IsCont(s, i + 2, 128, 191)
                  /\ IsUtf8From(s, i + 3)
             ELSE IF b >= 240 /\ b <= 244
             THEN /\ IsCont(s, i + 1, IF b = 240 THEN 144 ELSE 128,
                                      IF b = 244 THEN 143 ELSE 191)
                  /\ IsCont(s, i + 2, 128, 191)
                  /\ IsCont(s, i + 3, 128, 191)
                  /\ IsUtf8From(s, i + 4)
             ELSE FALSE

IsUtf8(s) == (\A i \in 1..Len(s) : s[i] < 128) \/ IsUtf8From(s, 1)

DomainName_from_reader(data, pos) ==
    Then(bytes_from_reader(data, pos, 0), LAMBDA bytes :
         IF ~IsUtf8(bytes.val) THEN Err("InvalidData") ELSE bytes)

(***************************************************************************)
(* DNSQuestion.                                                            *)
(***************************************************************************)
\* An encoder that writes the class before the type.
DNSQuestion_to_bytes_ClassFirst(q) ==
    DomainName_to_bytes(q.name) \o U16ToBeBytes(q.class) \o U16ToBeBytes(q.type_field)

DNSQuestion_to_bytes(q) ==
    DomainName_to_bytes(q.name) \o U16ToBeBytes(q.type_field) \o U16ToBeBytes(q.class)

DNSQuestion_from_reader(data, pos) ==
    Then(DomainName_from_reader(data, pos), LAMBDA name :
    Then(TypeField_from_reader(data, name.pos), LAMBDA type_field :
    Then(ClassField_from_reader(data, type_field.pos), LAMBDA class :
         Ok([name       |-> name.val,
             type_field |-> type_field.val,
             class      |-> class.val], class.pos))))

(***************************************************************************)
(* DNSRecord.  data.chunks(n) cuts the RDATA into pieces of n bytes, the   *)
(* last one shorter when the length is no multiple of n; the address       *)
(* constructors index the piece at 0..n-1 and panic on a shorter one.      *)
(***************************************************************************)
RECURSIVE Chunks(_, _)
Chunks(data, n) ==
    IF Len(data) = 0 THEN << >>
    ELSE IF Len(data) <= n THEN << data >>
    ELSE << SubSeq(data, 1, n) >> \o Chunks(SubSeq(data, n + 1, Len(data)), n)

\* ipv4_addr_from_bytes / ipv6_addr_from_bytes on every chunk: the addresses
\* (each kept as its bytes), or the panic of an index past a short chunk.
AddrsFromChunks(data, n) ==
    Let(Chunks(data, n), LAMBDA cs :
        IF \E i \in 1..Len(cs) : Len(cs[i]) < n
        THEN Abort("index out of bounds")
        ELSE [kind |-> "Ok", val |-> cs])

DNSRecord_from_reader(data, pos) ==
    Then(DomainName_from_reader(data, pos), LAMBDA name :
    Then(TypeField_from_reader(data, name.pos), LAMBDA type_field :
    Then(ClassField_from_reader(data, type_field.pos), LAMBDA class :
    Then(read_exact(data, class.pos, 4), LAMBDA ttl_bytes :
    Then(read_exact(data, ttl_bytes.pos, 2), LAMBDA data_len_bytes :
    Then(read_exact(data, data_len_bytes.pos, U16FromBeBytes(data_len_bytes.val)),
         LAMBDA rdata :
    Then(IF type_field.val = TypeField_NS
         THEN DomainName_from_reader(data, data_len_bytes.pos)
         ELSE Ok(<< >>, rdata.pos), LAMBDA ns :
    Then(IF type_field.val = TypeField_A
         THEN AddrsFromChunks(rdata.val, 4) ELSE [kind |-> "Ok"], LAMBDA ipv4 :
    Then(IF type_field.val = TypeField_AAAA
         THEN AddrsFromChunks(rdata.val, 16) ELSE [kind |-> "Ok"], LAMBDA ipv6 :
         Ok([name       |-> name.val,
             type_field |-> type_field.val,
             class      |-> class.val,
             ttl        |-> U32FromBeBytes(ttl_bytes.val),
             data       |-> rdata.val,
             ipv4       |-> IF type_field.val = TypeField_A THEN Some(ipv4.val) ELSE None,
             ipv6       |-> IF type_field.val = TypeField_AAAA THEN Some(ipv6.val) ELSE None,
             ns_name    |-> IF type_field.val = TypeField_NS THEN Some(ns.val) ELSE None],
            ns.pos))))))))))

(***************************************************************************)
(* DNSPacket::from: the header, then the four sections in their fixed      *)
(* order, each `for _ in 0..count` loop stopping at the first error.       *)
(***************************************************************************)
RECURSIVE ReadQuestions(_, _, _, _)
ReadQuestions(data, pos, n, acc) ==
    IF n = 0 THEN Ok(acc, pos)
    ELSE Then(DNSQuestion_from_reader(data, pos), LAMBDA q :
              ReadQuestions(data, q.pos, n - 1, Append(acc, q.val)))

RECURSIVE ReadRecords(_, _, _, _)
ReadRecords(data, pos, n, acc) ==
    IF n = 0 THEN Ok(acc, pos)
    ELSE Then(DNSRecord_from_reader(data, pos), LAMBDA r :
              ReadRecords(data, r.pos, n - 1, Append(acc, r.val)))

\* A decoder that reads the additional section before the authority section.
DNSPacket_from_AdditionalsFirst(data) ==
    Then(DNSHeader_from_reader(data, 0), LAMBDA header :
    Then(ReadQuestions(data, header.pos, header.val.num_questions, << >>), LAMBDA questions :
    Then(ReadRecords(data, questions.pos, header.val.num_answers, << >>), LAMBDA answers :
    Then(ReadRecords(data, answers.pos, header.val.num_additionals, << >>),
         LAMBDA additionals :
    Then(ReadRecords(data, additionals.pos, header.val.num_authorities, << >>),
         LAMBDA authorities :
         Ok([header      |-> header.val,
             questions   |-> questions.val,
             answers     |-> answers.val,
             authorities |-> authorities.val,
             additionals |-> additionals.val], authorities.pos))))))

DNSPacket_from(data) ==
    Then(DNSHeader_from_reader(data, 0), LAMBDA header :
    Then(ReadQuestions(data, header.pos, header.val.num_questions, << >>), LAMBDA questions :
    Then(ReadRecords(data, questions.pos, header.val.num_answers, << >>), LAMBDA answers :
    Then(ReadRecords(data, answers.pos, header.val.num_authorities, << >>),
         LAMBDA authorities :
    Then(ReadRecords(data, authorities.pos, header.val.num_additionals, << >>),
         LAMBDA additionals :
         Ok([header      |-> header.val,
             questions   |-> questions.val,
             answers     |-> answers.val,
             authorities |-> authorities.val,
             additionals |-> additionals.val], additionals.pos))))))

\* Iterator::find: the first element of the list with the given type, if any.
FindType(records, t) ==
    IF \E i \in 1..Len(records) : records[i].type_field = t
    THEN Some(records[CHOOSE i \in 1..Len(records) :
                        /\ records[i].type_field = t
                        /\ \A j \in 1..(i - 1) : records[j].type_field # t])
    ELSE None

get_answer(packet) == FindType(packet.answers, TypeField_A)

get_nameserver_record(packet) == FindType(packet.additionals, TypeField_A)

get_nameserver(packet) == FindType(packet.authorities, TypeField_NS)

(***************************************************************************)
(* build_query: a header with a random id, flags 0 and one question, then  *)
(* the question itself, class IN.                                          *)
(***************************************************************************)
build_query(id, domain_name, type_field) ==
    DNSHeader_to_bytes([id |-> id, flags |-> 0, num_questions |-> 1, num_answers |-> 0,
                        num_authorities |-> 0, num_additionals |-> 0])
        \o DNSQuestion_to_bytes([name |-> domain_name, type_field |-> type_field,
                                 class |-> ClassField_IN])

(***************************************************************************)
(* The environment: nameservers.  The code has no encoder for resource     *)
(* records, so the responses the servers send are built here, as RFC 1035  *)
(* lays them out.                                                          *)
(***************************************************************************)
WireRecord(name_bytes, type_code, class_code, rdata) ==
    name_bytes \o U16ToBeBytes(type_code) \o U16ToBeBytes(class_code)
        \o << 0, 0, 0, 60 >> \o U16ToBeBytes(Len(rdata)) \o rdata

RECURSIVE Concat(_)
Concat(seqs) == IF Len(seqs) = 0 THEN << >> ELSE seqs[1] \o Concat(Tail(seqs))

WireMessage(id, flags, question, an, ns, ar) ==
    DNSHeader_to_bytes([id |-> id, flags |-> flags, num_questions |-> 1,
                        num_answers |-> Len(an), num_authorities |-> Len(ns),
                        num_additionals |-> Len(ar)])
        \o question \o Concat(an) \o Concat(ns) \o Concat(ar)

\* The three nameservers of the model, by IPv4 address; Root is the address
\* resolve starts from.
Root == << 198, 41, 0, 4 >>

ServerB == << 10, 0, 0, 1 >>

ServerC == << 10, 0, 0, 2 >>

Servers == { Root, ServerB, ServerC }

\* Addresses carried by answers.
AddrX == << 93, 184, 216, 34 >>

AddrY == << 93, 184, 216, 35 >>

Addr6 == << 32, 1, 13, 184, 0, 0, 0, 0, 0, 0, 0, 0, 0, 0, 0, 1 >>

\* "t.co", the name to resolve; "ns.co", the nameserver the referrals name;
\* "x.co", some other name; "co", the zone.
Name_target == << 116, 46, 99, 111 >>

Name_ns == << 110, 115, 46, 99, 111 >>

Name_other == << 120, 46, 99, 111 >>

Name_zone == << 99, 111 >>

\* A compression pointer to offset 12, the name of the question.
PtrQuestion == << 192, 12 >>

\* A compression pointer to the offset.
PointerTo(offset) == << 192 + offset \div 256, offset % 256 >>

\* Header flags (RFC 1035 4.1.1), as bits of the high byte: QR marks a
\* response, TC a truncated one.
FlagQR == 128 * 256

FlagTC == 2 * 256

UnknownType == 99

\* What a server answers to every question it is asked.
Behaviours ==
    { "AnswerA", "AnswerOther", "AnswerMany", "AnswerAAAA", "AnswerEmpty",
      "GlueRoot", "GlueB", "GlueC", "NSOnly", "NSThenA", "Empty", "TCAnswer",
      "BadType", "NSThenShortRead", "NetErr" }

\* An A record whose RDLENGTH states more bytes than a datagram holds.
OverlongRecord ==
    PtrQuestion \o U16ToBeBytes(TypeField_A) \o U16ToBeBytes(ClassField_IN)
        \o << 0, 0, 0, 60 >> \o U16ToBeBytes(2000) \o AddrX

GlueSections(addr) ==
    [flags |-> FlagQR, an |-> << >>,
     ns |-> << WireRecord(DomainName_to_bytes(Name_zone), TypeField_NS, ClassField_IN,
                          DomainName_to_bytes(Name_ns)) >>,
     ar |-> << WireRecord(DomainName_to_bytes(Name_ns), TypeField_AAAA, ClassField_IN, Addr6),
               WireRecord(DomainName_to_bytes(Name_ns), TypeField_A, ClassField_IN, addr) >>]

NSOnlySections ==
    [flags |-> FlagQR, an |-> << >>,
     ns |-> << WireRecord(DomainName_to_bytes(Name_zone), TypeField_NS, ClassField_IN,
                          DomainName_to_bytes(Name_ns)) >>,
     ar |-> << >>]

AnswerSections(flags, an) == [flags |-> flags, an |-> an, ns |-> << >>, ar |-> << >>]

\* The sections of the response of a server with behaviour b to a question
\* about qname.
Sections(b, qname) ==
    CASE b = "AnswerA" ->
           AnswerSections(FlagQR, << WireRecord(PtrQuestion, TypeField_A, ClassField_IN, AddrX) >>)
      [] b = "AnswerOther" ->
           AnswerSections(FlagQR, << WireRecord(DomainName_to_bytes(Name_other), TypeField_A,
                                                ClassField_IN, AddrY) >>)
      [] b = "AnswerMany" ->
           AnswerSections(FlagQR,
                          << WireRecord(PtrQuestion, TypeField_CNAME, ClassField_IN,
                                        DomainName_to_bytes(Name_other)),
                             WireRecord(PtrQuestion, TypeField_A, ClassField_IN, AddrX),
                             WireRecord(PtrQuestion, TypeField_A, ClassField_IN, AddrY) >>)
      [] b = "AnswerAAAA" ->
           AnswerSections(FlagQR, << WireRecord(PtrQuestion, TypeField_AAAA, ClassField_IN, Addr6) >>)
      [] b = "AnswerEmpty" ->
           AnswerSections(FlagQR, << WireRecord(PtrQuestion, TypeField_A, ClassField_IN, << >>) >>)
      [] b = "GlueRoot" -> GlueSections(Root)
      [] b = "GlueB" -> GlueSections(ServerB)
      [] b = "GlueC" -> GlueSections(ServerC)
      [] b = "NSOnly" -> NSOnlySections
      [] b = "NSThenA" ->
           IF qname = Name_ns
           THEN AnswerSections(FlagQR, << WireRecord(PtrQuestion, TypeField_A, ClassField_IN,
                                                     ServerB) >>)
           ELSE NSOnlySections
      [] b = "Empty" -> AnswerSections(FlagQR, << >>)
      [] b = "TCAnswer" ->
           AnswerSections(FlagQR + FlagTC,
                          << WireRecord(PtrQuestion, TypeField_A, ClassField_IN, AddrX) >>)
      [] b = "NSThenShortRead" ->
           IF qname = Name_ns THEN AnswerSections(FlagQR, << OverlongRecord >>)
           ELSE NSOnlySections
      [] b = "BadType" ->
           AnswerSections(FlagQR, << WireRecord(PtrQuestion, UnknownType, ClassField_IN, AddrX) >>)

\* The datagram a server with behaviour b sends back for the query bytes it
\* received: it echoes the id and the question.  No datagram comes back from
\* a server that fails, nor for a query that is no well-formed message.
Reply(b, query) ==
    Let(DNSPacket_from(query), LAMBDA q :
        IF b = "NetErr" \/ ~IsOk(q) THEN None
        ELSE IF Len(q.val.questions) # 1 THEN None
        ELSE Let(Sections(b, q.val.questions[1].name), LAMBDA sec :
                 Some(WireMessage(q.val.header.id, sec.flags,
                                  SubSeq(query, DNS_HEADER_SIZE + 1, Len(query)),
                                  sec.an, sec.ns, sec.ar))))

(***************************************************************************)
(* State.                                                                  *)
(*   world     what each nameserver answers (fixed for a run)              *)
(*   stack     the frames of the calls of resolve in progress, the         *)
(*             outermost first: resolve calls itself to find the address   *)
(*             of a nameserver it has only the name of                     *)
(*   result    what the outermost call returned, Pending while it runs     *)
(*   last      the last iteration of the loop of resolve: the frame it     *)
(*             began in, the decoded response, the branch taken on it      *)
(*   nqueries  the queries sent since the outermost call began             *)
(*   call      the last call of a codec function made directly (the        *)
(*             functions are public), with its arguments and its outcome   *)
(*   threads   the calls of resolve that run at the same time, each on a   *)
(*             thread of its own: its frames, where it is in send_query,   *)
(*             what it returned                                            *)
(*   port      the thread whose socket is bound to 0.0.0.0:34254, 0 when   *)
(*             no socket is                                                *)
(***************************************************************************)
VARIABLES world, stack, result, last, nqueries, call, threads, port

vars == << world, stack, result, last, nqueries, call, threads, port >>

\* A nested resolution deeper than this is one that never ends: a nested
\* call always asks for ns_domain with type A from the root, the servers of
\* the model name one nameserver, so the second nested call repeats the
\* first and nests again.  The thread overflows its stack.
MaxDepth == 3

\* The counters of the model stop counting here.
MaxQueries == 5

\* The ids build_query draws (rand::random::<u16>()).
QueryIds == { 4660 }

Inc(n) == IF n < MaxQueries THEN n + 1 ELSE n

Plus(a, b) == IF a + b < MaxQueries THEN a + b ELSE MaxQueries

RECV_BUF_SIZE == 1024

\* recv_from into `buf = [0; 1024]`: the datagram, cut to the buffer's size,
\* in front of the zeros the buffer was filled with.
RecvBuf(datagram) ==
    IF Len(datagram) >= RECV_BUF_SIZE THEN SubSeq(datagram, 1, RECV_BUF_SIZE)
    ELSE datagram \o [i \in 1..(RECV_BUF_SIZE - Len(datagram)) |-> 0]

\* An address no server of the model has: nothing answers there.
BehaviourAt(socket_address) ==
    IF socket_address \in DOMAIN world THEN world[socket_address] ELSE "NetErr"

\* What send_query makes of the datagram of a server with behaviour b: the
\* whole receive buffer is decoded, zeros included.
Receive(b, socket_buf) ==
    Let(Reply(b, socket_buf), LAMBDA reply :
        IF ~reply.some THEN Err("transport")
        ELSE Let(RecvBuf(reply.v), LAMBDA buf :
                 Let(DNSPacket_from(buf), LAMBDA p :
                     IF IsOk(p) THEN [kind |-> "Ok", val |-> p.val] ELSE p)))

\* The queries resolve sends in the model, and the outcome of each against
\* each behaviour, worked out once.
Queries ==
    { build_query(id, n, t) : id \in QueryIds, n \in { Name_target, Name_ns },
                              t \in { TypeField_A, TypeField_AAAA } }

Exchanges == [b \in Behaviours, q \in Queries |-> Receive(b, q)]

send_query(socket_address, socket_buf) ==
    IF socket_buf \in Queries THEN Exchanges[BehaviourAt(socket_address), socket_buf]
    ELSE Receive(BehaviourAt(socket_address), socket_buf)

NewFrame(domain_name, type_field) ==
    [domain_name |-> domain_name, type_field |-> type_field, name_server |-> Root,
     sent |-> 0, hops |-> 0, requeries |-> 0, nested |-> 0]

Running == Len(stack) > 0

Top == stack[Len(stack)]

\* One iteration of the loop of resolve begins: the query, the response.
Exchange(id) == send_query(Top.name_server, build_query(id, Top.domain_name, Top.type_field))

\* The record of an iteration: the frame it began in, the response, the
\* branch taken, and what the call returned if the iteration ended it.
Asked(resp, branch, ret) ==
    [some |-> TRUE, frame |-> Top, depth |-> Len(stack), resp |-> resp,
     branch |-> branch, ret |-> ret]

Replace(frames, f) == [frames EXCEPT ![Len(frames)] = f]

\* The `?` on send_query, on the nested resolve, and the two `return`s: the
\* call on top of the stack returns r.  An Ok goes to the caller's
\* name_server, and the caller's loop goes on; an Err is returned again by
\* every caller in turn.
Return(r) ==
    IF Len(stack) = 1 \/ ~IsOk(r)
    THEN /\ stack' = << >>
         /\ result' = r
    ELSE LET callee == [Top EXCEPT !.sent = Inc(@)]
             caller == stack[Len(stack) - 1]
         IN  /\ stack' = Replace(SubSeq(stack, 1, Len(stack) - 1),
                                 [caller EXCEPT !.name_server = r.val,
                                                !.hops = Inc(@),
                                                !.nested = Plus(@, Plus(callee.sent,
                                                                        callee.nested))])
             /\ result' = result

FirstIp(record) ==
    IF record.ipv4.some /\ Len(record.ipv4.v) > 0 THEN Some(record.ipv4.v[1]) ELSE None

\* A resolver that, when send_query fails, sends the query again.
QueryFails_AsksAgain ==
    /\ Running
    /\ \E id \in QueryIds :
         LET packet == Exchange(id)
         IN  /\ ~IsOk(packet)
             /\ last' = Asked(packet, "error", None)
             /\ nqueries' = Inc(nqueries)
             /\ stack' = Replace(stack, [Top EXCEPT !.sent = Inc(@)])
    /\ UNCHANGED << world, result, call, threads, port >>

\* send_query fails: no response, or one that does not decode.
QueryFails ==
    /\ Running
    /\ \E id \in QueryIds :
         LET packet == Exchange(id)
         IN  /\ ~IsOk(packet)
             /\ last' = Asked(packet, "error", Some(packet))
             /\ nqueries' = Inc(nqueries)
             /\ Return(packet)
    /\ UNCHANGED << world, call, threads, port >>

\* The answer section has an A record, and the record has an address.
AnswerFound ==
    /\ Running
    /\ \E id \in QueryIds :
         LET packet == Exchange(id)
         IN  /\ IsOk(packet)
             /\ get_answer(packet.val).some
             /\ FirstIp(get_answer(packet.val).v).some
             /\ last' = Asked(packet, "answer",
                              Some([kind |-> "Ok",
                                    val |-> FirstIp(get_answer(packet.val).v).v]))
             /\ nqueries' = Inc(nqueries)
             /\ Return([kind |-> "Ok", val |-> FirstIp(get_answer(packet.val).v).v])
    /\ UNCHANGED << world, call, threads, port >>

\* The answer section has an A record without an address: no branch of the
\* `if let` chain runs, and the loop asks the same server again.
AnswerWithoutAddress ==
    /\ Running
    /\ \E id \in QueryIds :
         LET packet == Exchange(id)
         IN  /\ IsOk(packet)
             /\ get_answer(packet.val).some
             /\ ~FirstIp(get_answer(packet.val).v).some
             /\ last' = Asked(packet, "again", None)
             /\ nqueries' = Inc(nqueries)
             /\ stack' = Replace(stack, [Top EXCEPT !.sent = Inc(@), !.requeries = Inc(@)])
    /\ UNCHANGED << world, result, call, threads, port >>

GlueIp(packet) ==
    LET rec == get_nameserver_record(packet)
    IN  IF rec.some THEN FirstIp(rec.v) ELSE None

\* A resolver that, referred to a server by glue, asks the server it was
\* asking once more before it goes on.
FollowGlue_AsksAgain ==
    /\ Running
    /\ \E id \in QueryIds :
         LET packet == Exchange(id)
         IN  /\ IsOk(packet)
             /\ ~get_answer(packet.val).some
             /\ GlueIp(packet.val).some
             /\ last' = Asked(packet, "glue", None)
             /\ nqueries' = Inc(Inc(nqueries))
             /\ stack' = Replace(stack, [Top EXCEPT !.name_server = GlueIp(packet.val).v,
                                                    !.sent = Inc(@), !.hops = Inc(@)])
    /\ UNCHANGED << world, result, call, threads, port >>

\* No A answer; the additional section has an A record, with an address.
FollowGlue ==
    /\ Running
    /\ \E id \in QueryIds :
         LET packet == Exchange(id)
         IN  /\ IsOk(packet)
             /\ ~get_answer(packet.val).some
             /\ GlueIp(packet.val).some
             /\ last' = Asked(packet, "glue", None)
             /\ nqueries' = Inc(nqueries)
             /\ stack' = Replace(stack, [Top EXCEPT !.name_server = GlueIp(packet.val).v,
                                                    !.sent = Inc(@), !.hops = Inc(@)])
    /\ UNCHANGED << world, result, call, threads, port >>

NsDomain(packet) ==
    LET rec == get_nameserver(packet)
    IN  IF rec.some THEN rec.v.ns_name ELSE None

\* No A answer and no glue address; the authority section has an NS record:
\* resolve(ns_domain, TypeField::A) is called.
FollowNameserver ==
    /\ Running
    /\ \E id \in QueryIds :
         LET packet == Exchange(id)
         IN  /\ IsOk(packet)
             /\ ~get_answer(packet.val).some
             /\ ~GlueIp(packet.val).some
             /\ NsDomain(packet.val).some
             /\ last' = Asked(packet, "ns", None)
             /\ nqueries' = Inc(nqueries)
             /\ IF Len(stack) < MaxDepth
                THEN /\ stack' = Append(Replace(stack, [Top EXCEPT !.sent = Inc(@)]),
                                        NewFrame(NsDomain(packet.val).v, TypeField_A))
                     /\ result' = result
                ELSE /\ stack' = << >>
                     /\ result' = Abort("stack overflow")
    /\ UNCHANGED << world, call, threads, port >>

\* None of the three.
NoAnswer ==
    /\ Running
    /\ \E id \in QueryIds :
         LET packet == Exchange(id)
         IN  /\ IsOk(packet)
             /\ ~get_answer(packet.val).some
             /\ ~GlueIp(packet.val).some
             /\ ~NsDomain(packet.val).some
             /\ last' = Asked(packet, "none", Some(Err("No answer found for domain name")))
             /\ nqueries' = Inc(nqueries)
             /\ Return(Err("No answer found for domain name"))
    /\ UNCHANGED << world, call, threads, port >>

NoCall == [op |-> "none"]

\* The outermost call has not returned.
Pending == [kind |-> "Pending"]

\* resolve(domain_name, type_field) is called, in a world of nameservers.
Init ==
    /\ world \in [Servers -> Behaviours]
    /\ \E t \in { TypeField_A, TypeField_AAAA } : stack = << NewFrame(Name_target, t) >>
    /\ result = Pending
    /\ last = None
    /\ nqueries = 0
    /\ call = NoCall
    /\ threads = << >>
    /\ port = 0

Next ==
    \/ QueryFails
    \/ AnswerFound
    \/ AnswerWithoutAddress
    \/ FollowGlue
    \/ FollowNameserver
    \/ NoAnswer

Spec == Init /\ [][Next]_vars

\* The worlds of two servers, the root and B, that refer to each other, answer
\* or fail; C answers.
ReferralBehaviours ==
    { "GlueRoot", "GlueB", "AnswerA", "AnswerEmpty", "NSOnly", "Empty", "NetErr" }

FairInit ==
    /\ Init
    /\ world[Root] \in ReferralBehaviours
    /\ world[ServerB] \in ReferralBehaviours
    /\ world[ServerC] = "AnswerA"

\* resolve runs on its thread until it returns: a step that can be taken is.
FairSpec == FairInit /\ [][Next]_vars /\ WF_vars(Next)

(***************************************************************************)
(* The codec called directly.  Each action is one call of a public         *)
(* function on an input of a bounded set, and leaves the call and its      *)
(* outcome in `call`.  The functions keep no state between calls, so a run *)
(* is one call.                                                            *)
(***************************************************************************)
\* Labels per name, and bytes per buffer, of the inputs.
MaxLabels == 3

MaxBufLen == 4

LabelOf(n, c) == [i \in 1..n |-> c]

\* Labels: empty, short, of the longest length a length byte can state (63),
\* one longer, and one whose length does not fit a byte.
LabelInputs ==
    { << >>, << 97 >>, << 98 >>, << 97, 98 >>, LabelOf(63, 97), LabelOf(64, 97),
      LabelOf(256, 97) }

NameInputs ==
    { Join(ls) : ls \in UNION { [1..n -> LabelInputs] : n \in 1..MaxLabels } }

\* A name as DomainName states them: labels of 1 to 63 bytes, none empty.
WellFormedName(string) ==
    \A i \in 1..Len(Split(string)) :
        Len(Split(string)[i]) >= 1 /\ Len(Split(string)[i]) <= 63

\* Bytes of the buffers names are decoded from: the terminator, label
\* lengths, a label byte, the reserved patterns 01 and 10 (64, 128) and the
\* pointer pattern 11 (192).
BufferBytes == { 0, 1, 2, 64, 97, 128, 192 }

\* Buffers with a name at offset 0 and, after it, names that end in a pointer
\* back to it: "a" then a pointer to offset 0 (at 7), "b" then a pointer to
\* that name (at 11), and an empty name at 15 with "c" then a pointer to it.
PointerBuffers ==
    { DomainName_to_bytes(Name_ns) \o << 1, 97, 192, 0 >> \o << 1, 98, 192, 7 >>
        \o << 0, 1, 99, 192, 15 >> }

BufferInputs == UNION { [1..n -> BufferBytes] : n \in 1..MaxBufLen } \cup PointerBuffers

\* Type and class codes of the messages decoded: known ones and unknown ones.
TypeInputs == { TypeField_A, TypeField_NS, TypeField_AAAA, UnknownType }

UnknownClass == 5

ClassInputs == { ClassField_IN, UnknownClass }

RdataFor(type_code) ==
    IF type_code = TypeField_NS THEN DomainName_to_bytes(Name_ns)
    ELSE IF type_code = TypeField_AAAA THEN Addr6
    ELSE AddrX

\* How many records the answer, authority and additional sections hold.
Layouts ==
    { << 0, 0, 0 >>, << 1, 0, 0 >>, << 0, 1, 0 >>, << 0, 0, 1 >>, << 2, 0, 0 >>,
      << 1, 1, 0 >>, << 1, 0, 1 >>, << 0, 1, 1 >>, << 0, 0, 2 >> }

\* The fields of a question or a record of an input message.
FieldInputs == [type_code : TypeInputs, class_code : ClassInputs]

WireOf(f) == WireRecord(PtrQuestion, f.type_code, f.class_code, RdataFor(f.type_code))

WireAll(fs) == [i \in 1..Len(fs) |-> WireOf(fs[i])]

\* The message with question q and the records of recs laid out as layout.
MessageOf(q, layout, recs) ==
    WireMessage(4660, FlagQR,
                DomainName_to_bytes(Name_target) \o U16ToBeBytes(q.type_code)
                    \o U16ToBeBytes(q.class_code),
                WireAll(SubSeq(recs, 1, layout[1])),
                WireAll(SubSeq(recs, layout[1] + 1, layout[1] + layout[2])),
                WireAll(SubSeq(recs, layout[1] + layout[2] + 1, Len(recs))))

\* DomainName::from(name).to_bytes()
CallToBytes ==
    /\ call = NoCall
    /\ \E name \in NameInputs :
         call' = [op |-> "to_bytes", name |-> name,
                  out |-> [kind |-> "Ok", val |-> DomainName_to_bytes(name)]]
    /\ UNCHANGED << world, stack, result, last, nqueries, threads, port >>

\* DomainName::from_reader on a cursor at pos of a buffer.
CallFromReader ==
    /\ call = NoCall
    /\ \E data \in BufferInputs : \E pos \in 0..(Len(data) - 1) :
         call' = [op |-> "from_reader", data |-> data, pos |-> pos,
                  out |-> DomainName_from_reader(data, pos)]
    /\ UNCHANGED << world, stack, result, last, nqueries, threads, port >>

\* build_query, and DNSPacket::from on the bytes it returned.
CallBuildQuery ==
    /\ call = NoCall
    /\ \E id \in { 0, 4660, 65535 } : \E name \in NameInputs : \E t \in TypeFieldValues :
         /\ WellFormedName(name)
         /\ call' = Let(build_query(id, name, t), LAMBDA bytes :
                         [op |-> "build_query", id |-> id, name |-> name, type_field |-> t,
                          bytes |-> bytes, out |-> DNSPacket_from(bytes)])
    /\ UNCHANGED << world, stack, result, last, nqueries, threads, port >>

\* DNSPacket::from on a response message.
CallPacketFrom ==
    /\ call = NoCall
    /\ \E q \in FieldInputs : \E layout \in Layouts :
       \E recs \in [1..(layout[1] + layout[2] + layout[3]) -> FieldInputs] :
         call' = Let(MessageOf(q, layout, recs), LAMBDA bytes :
                     [op |-> "packet_from", question |-> q, layout |-> layout,
                      records |-> recs, bytes |-> bytes, out |-> DNSPacket_from(bytes)])
    /\ UNCHANGED << world, stack, result, last, nqueries, threads, port >>

\* The RDATA of the records decoded: of every length around the 4 bytes of an
\* IPv4 address and the 16 of an IPv6 address, and names: the empty name, a
\* name of two labels, a pointer, a label and a pointer, a name followed by
\* other bytes, and a name that does not end within the RDATA.
RdataLengths == { 0, 3, 4, 5, 8, 15, 16, 17, 32 }

RdataInputs ==
    { LabelOf(n, 7) : n \in RdataLengths }
        \cup { << 0 >>, DomainName_to_bytes(Name_ns), << 192, 0 >>, << 1, 97, 192, 0 >>,
               << 0, 1, 2, 3 >>, << 1, 97 >>, << 2, 110, 115, 0, 0 >> }

RecordTypeInputs == { TypeField_A, TypeField_NS, TypeField_CNAME, TypeField_AAAA }

\* What follows the record in the buffer.
TrailerInputs == { << >>, << 0, 0, 0 >> }

\* The name at offset 0 that the record's owner name points to.
RecordPrefix == DomainName_to_bytes(Name_ns)

\* DNSRecord::from_reader on a cursor at the record, which follows a name.
\* rdata_at is the offset of the RDATA: the owner name (2), type (2),
\* class (2), ttl (4) and RDLENGTH (2) precede it.
CallRecordFromReader ==
    /\ call = NoCall
    /\ \E t \in RecordTypeInputs : \E rdata \in RdataInputs : \E trailer \in TrailerInputs :
         call' = Let(RecordPrefix \o WireRecord(PointerTo(0), t, ClassField_IN, rdata)
                         \o trailer, LAMBDA bytes :
                     [op |-> "record_from_reader", type_code |-> t, rdata |-> rdata,
                      data |-> bytes, pos |-> Len(RecordPrefix),
                      rdata_at |-> Len(RecordPrefix) + 12,
                      out |-> DNSRecord_from_reader(bytes, Len(RecordPrefix))])
    /\ UNCHANGED << world, stack, result, last, nqueries, threads, port >>

CodecInit ==
    /\ world = [s \in Servers |-> "NetErr"]
    /\ stack = << >>
    /\ result = Pending
    /\ last = None
    /\ nqueries = 0
    /\ call = NoCall
    /\ threads = << >>
    /\ port = 0

CodecNext ==
    \/ CallToBytes
    \/ CallFromReader
    \/ CallBuildQuery
    \/ CallPacketFrom
    \/ CallRecordFromReader

CodecSpec == CodecInit /\ [][CodecNext]_vars

(***************************************************************************)
(* Two calls of resolve at the same time, each on its own thread.  What    *)
(* the calls share is the local port of send_query: every call binds its   *)
(* socket to 0.0.0.0:34254, and the socket is closed when send_query       *)
(* returns.  A step of a thread is the bind, or the rest of the iteration: *)
(* connect, send, recv_from, DNSPacket::from and the branch of resolve.    *)
(***************************************************************************)
Threads == { 1, 2 }

\* A thread returns r from its call on top of its frames.
ReturnOf(frames, r) ==
    IF Len(frames) = 1 \/ ~IsOk(r)
    THEN [stack |-> << >>, result |-> r]
    ELSE [stack |-> Replace(SubSeq(frames, 1, Len(frames) - 1),
                            [frames[Len(frames) - 1] EXCEPT !.name_server = r.val]),
          result |-> Pending]

\* The branch of the loop of resolve on the outcome of send_query: the
\* frames after it, and what the outermost call returned if it did.
resolve_iteration(frames, packet) ==
    IF ~IsOk(packet) THEN ReturnOf(frames, packet)
    ELSE IF get_answer(packet.val).some
    THEN IF FirstIp(get_answer(packet.val).v).some
         THEN ReturnOf(frames, [kind |-> "Ok", val |-> FirstIp(get_answer(packet.val).v).v])
         ELSE [stack |-> frames, result |-> Pending]
    ELSE IF GlueIp(packet.val).some
    THEN [stack |-> Replace(frames, [frames[Len(frames)] EXCEPT
                                       !.name_server = GlueIp(packet.val).v]),
          result |-> Pending]
    ELSE IF NsDomain(packet.val).some
    THEN IF Len(frames) < MaxDepth
         THEN [stack |-> Append(frames, NewFrame(NsDomain(packet.val).v, TypeField_A)),
               result |-> Pending]
         ELSE [stack |-> << >>, result |-> Abort("stack overflow")]
    ELSE ReturnOf(frames, Err("No answer found for domain name"))

\* The query of the frame on top, sent and answered.
ExchangeOf(frames, id) ==
    send_query(frames[Len(frames)].name_server,
               build_query(id, frames[Len(frames)].domain_name,
                           frames[Len(frames)].type_field))

\* UdpSocket::bind succeeds: no socket is bound to the port.
ThreadBinds ==
    /\ \E t \in Threads :
         /\ threads[t].pc = "ready"
         /\ port = 0
         /\ port' = t
         /\ threads' = [threads EXCEPT ![t].pc = "bound"]
    /\ UNCHANGED << world, stack, result, last, nqueries, call >>

\* UdpSocket::bind fails, the port being in use, and `expect` panics.
ThreadBindPanics ==
    /\ \E t \in Threads :
         /\ threads[t].pc = "ready"
         /\ port # 0
         /\ threads' = [threads EXCEPT ![t] =
                          [stack |-> << >>, pc |-> "done",
                           result |-> Abort("couldn't bind to address")]]
    /\ UNCHANGED << world, stack, result, last, nqueries, call, port >>

\* The rest of send_query, whose return closes the socket, and the branch of
\* resolve on its outcome.
ThreadExchanges ==
    /\ \E t \in Threads : \E id \in QueryIds :
         /\ threads[t].pc = "bound"
         /\ port' = 0
         /\ threads' = Let(resolve_iteration(threads[t].stack,
                                             ExchangeOf(threads[t].stack, id)), LAMBDA n :
                           [threads EXCEPT ![t] =
                              [stack |-> n.stack,
                               pc |-> IF n.result = Pending THEN "ready" ELSE "done",
                               result |-> n.result]])
    /\ UNCHANGED << world, stack, result, last, nqueries, call >>

\* The names the two threads resolve.
NameOfThread(t) == IF t = 1 THEN Name_target ELSE Name_ns

ThreadStart(t) ==
    [stack |-> << NewFrame(NameOfThread(t), TypeField_A) >>, pc |-> "ready",
     result |-> Pending]

ConcBehaviours == { "AnswerA", "GlueB", "GlueC", "NSThenA", "Empty", "NetErr" }

ConcInit ==
    /\ world \in [Servers -> ConcBehaviours]
    /\ stack = << >>
    /\ result = Pending
    /\ last = None
    /\ nqueries = 0
    /\ call = NoCall
    /\ threads = [t \in Threads |-> ThreadStart(t)]
    /\ port = 0

ConcNext ==
    \/ ThreadBinds
    \/ ThreadBindPanics
    \/ ThreadExchanges

ConcSpec == ConcInit /\ [][ConcNext]_vars

(***************************************************************************)
(* Claims.                                                                 *)
(***************************************************************************)
IsErr(r, e) == r.kind = "Err" /\ r.err = e

\* The indexes of the records that answer the question of frame f: the type
\* asked for, the name asked for.
Matching(records, f) ==
    { i \in 1..Len(records) :
        records[i].type_field = f.type_field /\ records[i].name = f.domain_name }

HasType(records, t) == \E i \in 1..Len(records) : records[i].type_field = t

FirstOfType(records, t) ==
    records[CHOOSE i \in 1..Len(records) :
              /\ records[i].type_field = t
              /\ \A j \in 1..(i - 1) : records[j].type_field # t]

Decoded == last.some /\ IsOk(last.resp)

\* A and B refer to each other: the root (A) answers every query with a glue
\* referral to B, and B with a glue referral to the root.
CycleWorld == world[Root] = "GlueB" /\ world[ServerB] = "GlueRoot"

\* C1: in a referral cycle, resolve ends with the error TooManyRedirections.
C1_CycleEndsTooManyRedirections ==
    CycleWorld => <>(IsErr(result, "TooManyRedirections"))

\* C2 as claimed: an answer reached after N referrals took N+1 queries in
\* total (N = 0 when the root answers).
C2_QueriesAreReferralsPlusOne ==
    (result.kind = "Ok" /\ nqueries < MaxQueries) => nqueries = last.frame.hops + 1

\* C2 as amended: an answer reached after N referrals took N+1 queries, plus
\* the queries of the nested resolutions of nameserver names (glue-less NS
\* referrals), plus one for every response whose A answer had no address.
C2_QueriesCounted ==
    (result.kind = "Ok" /\ nqueries < MaxQueries) =>
        /\ nqueries = last.frame.hops + 1 + last.frame.nested + last.frame.requeries
        /\ (last.frame.hops = 0 /\ last.frame.requeries = 0 => nqueries = 1)

\* The answer came after two referrals, one of them through a nested
\* resolution of the nameserver's name.
C2_Witness ==
    /\ result.kind = "Ok"
    /\ nqueries < MaxQueries
    /\ last.frame.hops = 2
    /\ last.frame.nested > 0

\* C3: the value resolve returns is the one of the first answer record with
\* the type and the name asked for.
C3_AnswerIsFirstMatch ==
    (Decoded /\ last.ret.some /\ IsOk(last.ret.v)) =>
        LET answers == last.resp.val.answers
            m == Matching(answers, last.frame)
        IN  /\ m # { }
            /\ LET rec == answers[CHOOSE i \in m : \A j \in m : i <= j]
               IN  last.ret.v.val =
                     (IF rec.type_field = TypeField_AAAA THEN rec.ipv6.v[1] ELSE rec.ipv4.v[1])

\* C4: without a matching answer, the next query goes to the address of the
\* first additional A record if there is one; else an authority NS record is
\* used if there is one; else resolve fails with NoAnswer.
C4_ReferralPrecedence ==
    (Decoded /\ Matching(last.resp.val.answers, last.frame) = { }) =>
        IF HasType(last.resp.val.additionals, TypeField_A)
        THEN /\ last.branch = "glue"
             /\ Len(stack) = last.depth
             /\ FirstOfType(last.resp.val.additionals, TypeField_A).data = Top.name_server
        ELSE IF HasType(last.resp.val.authorities, TypeField_NS)
        THEN last.branch = "ns"
        ELSE /\ last.branch = "none"
             /\ IsErr(last.ret.v, "No answer found for domain name")

TruncatedBit(flags) == (flags \div FlagTC) % 2 = 1

\* C5: a response with the TC bit set makes the step end with Truncated.
C5_TruncatedSurfaced ==
    (Decoded /\ TruncatedBit(last.resp.val.header.flags)) =>
        last.ret.some /\ IsErr(last.ret.v, "Truncated")

\* Whether the decoder, reading the name at pos, comes to a compression
\* pointer whose target is not before the pointer's own first byte.
RECURSIVE MeetsForwardPointer(_, _, _)
MeetsForwardPointer(data, pos, fuel) ==
    IF pos >= Len(data) THEN FALSE
    ELSE LET l == data[pos + 1]
         IN  IF l >= 192
             THEN /\ pos + 1 < Len(data)
                  /\ LET target == (l % 64) * 256 + data[pos + 2]
                     IN  \/ target >= pos
                         \/ fuel > 0 /\ MeetsForwardPointer(data, target, fuel - 1)
             ELSE IF l >= 1 /\ l <= 63
             THEN MeetsForwardPointer(data, pos + 1 + l, fuel)
             ELSE FALSE

\* C6: a pointer to its own offset or to a later one makes decoding fail
\* with InvalidFormat.
C6_ForwardPointerRejected ==
    (call.op = "from_reader" /\ MeetsForwardPointer(call.data, call.pos, Len(call.data)))
        => IsErr(call.out, "InvalidFormat")

\* C7: decoding a name ends, with a name or with an error, whatever the
\* buffer holds.
C7_NameDecodingTerminates ==
    call.op = "from_reader" => call.out.kind \in { "Ok", "Err" }

\* C8: the bytes of build_query decode to the header (id, 0, 1, 0, 0, 0), the
\* one question asked, class IN, and no records, the whole of the bytes being
\* read; and the bytes of to_bytes decode to the name.
C8_QueryRoundTrip ==
    call.op = "build_query" =>
        /\ IsOk(call.out)
        /\ call.out.pos = Len(call.bytes)
        /\ call.out.val.header =
             [id |-> call.id, flags |-> 0, num_questions |-> 1, num_answers |-> 0,
              num_authorities |-> 0, num_additionals |-> 0]
        /\ call.out.val.questions =
             << [name |-> call.name, type_field |-> call.type_field,
                 class |-> ClassField_IN] >>
        /\ call.out.val.answers = << >>
        /\ call.out.val.authorities = << >>
        /\ call.out.val.additionals = << >>
        /\ DomainName_from_reader(DomainName_to_bytes(call.name), 0)
             = Ok(call.name, Len(DomainName_to_bytes(call.name)))

\* A query for a name of three labels, one of them of 63 bytes, went round.
C8_Witness ==
    /\ call.op = "build_query"
    /\ Len(Split(call.name)) = 3
    /\ \E i \in 1..3 : Len(Split(call.name)[i]) = 63
    /\ call.type_field = TypeField_AAAA
    /\ call.id = 65535
    /\ IsOk(call.out)
    /\ call.out.val.questions[1].name = call.name

UnknownCode(f) ==
    f.type_code \notin TypeFieldValues \/ f.class_code \notin ClassFieldValues

\* The question and the records of the message decoded, in wire order.
FieldsOf(c) == << c.question >> \o c.records

\* C9: a message with a type or class code outside the known ones, in its
\* question or in any record, does not decode: the error is the one of the
\* first such field (Invalid TYPE field, or Invalid CLASS field), and a
\* message that does decode has every record it was sent with.
C9_UnknownCodeFails ==
    call.op = "packet_from" =>
        LET fs == FieldsOf(call)
            bad == { i \in 1..Len(fs) : UnknownCode(fs[i]) }
        IN  /\ bad # { } =>
                 LET f == fs[CHOOSE i \in bad : \A j \in bad : i <= j]
                 IN  IF f.type_code \notin TypeFieldValues
                     THEN IsErr(call.out, "Invalid TYPE field")
                     ELSE IsErr(call.out, "Invalid CLASS field")
            /\ IsOk(call.out) =>
                 /\ Len(call.out.val.questions) = 1
                 /\ Len(call.out.val.answers) = call.layout[1]
                 /\ Len(call.out.val.authorities) = call.layout[2]
                 /\ Len(call.out.val.additionals) = call.layout[3]

\* An answer of a known type, then an additional record of type 99: the
\* message did not decode.
C9_Witness ==
    /\ call.op = "packet_from"
    /\ call.layout = << 1, 0, 1 >>
    /\ ~UnknownCode(call.question)
    /\ ~UnknownCode(call.records[1])
    /\ call.records[2].type_code = UnknownType
    /\ IsErr(call.out, "Invalid TYPE field")

\* The offset, in the bytes of to_bytes, of the length byte of part i.
RECURSIVE LengthOffset(_, _)
LengthOffset(parts, i) ==
    IF i = 1 THEN 0 ELSE LengthOffset(parts, i - 1) + 1 + Len(parts[i - 1])

\* C10: encoding a name with an empty label (the empty name, a leading, a
\* trailing or a doubled dot) or with a label of more than 63 bytes fails
\* with InvalidFormat; and the length bytes emitted are the lengths of the
\* labels, none of them zero.
C10_MalformedNameRejected ==
    call.op = "to_bytes" =>
        LET parts == Split(call.name)
        IN  IF ~WellFormedName(call.name) THEN IsErr(call.out, "InvalidFormat")
            ELSE /\ IsOk(call.out)
                 /\ \A i \in 1..Len(parts) :
                      /\ call.out.val[LengthOffset(parts, i) + 1] = Len(parts[i])
                      /\ call.out.val[LengthOffset(parts, i) + 1] # 0

\* C11: an A record decodes only with RDLENGTH 4 and an AAAA record only with
\* RDLENGTH 16, any other length failing with InvalidFormat; a decoded record
\* has one address; and no length makes the decoder abort.
C11_AddressLengthValidated ==
    (call.op = "record_from_reader" /\ call.type_code \in { TypeField_A, TypeField_AAAA }) =>
        /\ call.out.kind # "Abort"
        /\ Len(call.rdata) # (IF call.type_code = TypeField_A THEN 4 ELSE 16)
             => IsErr(call.out, "InvalidFormat")
        /\ IsOk(call.out) =>
             Len(IF call.type_code = TypeField_A THEN call.out.val.ipv4.v
                 ELSE call.out.val.ipv6.v) = 1

TypesOf(records) == [i \in 1..Len(records) |-> records[i].type_field]

\* C12: a decoded message has as many questions, answers, authority records
\* and additional records as its header counts, and its records are those of
\* the buffer in section order: answers, then authorities, then additionals.
C12_CountsMatchLists ==
    (call.op \in { "packet_from", "build_query" } /\ IsOk(call.out)) =>
        LET m == call.out.val
        IN  /\ Len(m.questions) = m.header.num_questions
            /\ Len(m.answers) = m.header.num_answers
            /\ Len(m.authorities) = m.header.num_authorities
            /\ Len(m.additionals) = m.header.num_additionals
            /\ call.op = "packet_from" =>
                 /\ m.header.num_answers = call.layout[1]
                 /\ m.header.num_authorities = call.layout[2]
                 /\ m.header.num_additionals = call.layout[3]
                 /\ TypesOf(m.answers) \o TypesOf(m.authorities) \o TypesOf(m.additionals)
                      = [i \in 1..Len(call.records) |-> call.records[i].type_code]

\* A message with an NS record in the authority section and an A record in
\* the additional section decoded.
C12_Witness ==
    /\ call.op = "packet_from"
    /\ call.layout = << 0, 1, 1 >>
    /\ IsOk(call.out)
    /\ TypesOf(call.out.val.authorities) = << TypeField_NS >>
    /\ TypesOf(call.out.val.additionals) = << TypeField_A >>

\* What DNSPacket::from returns for a response cut short: every buffer that
\* ends before the header's 12 bytes or before the question or the answer
\* record the header counts is complete.
ShortBufferOutcomes ==
    LET m == WireMessage(4660, FlagQR,
                         DomainName_to_bytes(Name_target) \o U16ToBeBytes(TypeField_A)
                             \o U16ToBeBytes(ClassField_IN),
                         << WireRecord(PtrQuestion, TypeField_A, ClassField_IN, AddrX) >>,
                         << >>, << >>)
    IN  { DNSPacket_from(SubSeq(m, 1, n)) : n \in 0..(Len(m) - 1) }

\* An error value: the error and nothing of a message.
ErrorOnly(r) == r.kind = "Err" /\ DOMAIN r = { "kind", "err" }

\* C13: a buffer that ends early decodes to an error and no message; and when
\* a response does not decode, resolve returns that error, through every
\* nested call, and sends no further query.
C13_DecodeFailureReturned ==
    /\ \A r \in ShortBufferOutcomes : ErrorOnly(r)
    /\ (last.some /\ ~IsOk(last.resp)) =>
         /\ ErrorOnly(last.resp)
         /\ last.branch = "error"
         /\ last.ret = Some(last.resp)
         /\ result = last.resp
         /\ ~Running

\* The response to the nested call for the nameserver's name stated more
\* RDATA than the buffer holds: the outermost call returned the error.
C13_Witness ==
    /\ last.some
    /\ IsErr(last.resp, "UnexpectedEof")
    /\ last.depth = 2
    /\ result = last.resp
    /\ nqueries = 2

\* C14: a chain of referrals that give only the name of a nameserver, each
\* resolution of that name giving such a referral again, ends with an error:
\* the nested calls of resolve never exhaust the stack.
C14_NestingEndsWithError ==
    result.kind \in { "Pending", "Ok", "Err" }

\* Iterations of resolve after which a call run alone is taken not to return.
MaxAloneSteps == 12

\* What the call of a thread returns when it runs alone: its iterations one
\* after the other, nothing else holding the port.
RECURSIVE RunAlone(_, _)
RunAlone(st, fuel) ==
    IF st.result # Pending \/ fuel = 0 THEN st.result
    ELSE RunAlone(resolve_iteration(st.stack,
                                    ExchangeOf(st.stack, CHOOSE id \in QueryIds : TRUE)),
                  fuel - 1)

\* C15: a call of resolve that runs while another one does returns what it
\* returns when run alone.
C15_ConcurrentCallsIndependent ==
    \A t \in DOMAIN threads :
        threads[t].pc = "done" => threads[t].result = RunAlone(ThreadStart(t), MaxAloneSteps)

\* The literal labels read from pos up to the first compression pointer, and
\* the offset q of that pointer, if the name at pos has one.
RECURSIVE LiteralsThenPointer(_, _, _)
LiteralsThenPointer(data, pos, labels) ==
    IF pos >= Len(data) THEN [found |-> FALSE]
    ELSE LET l == data[pos + 1]
         IN  IF l >= 192 /\ pos + 1 < Len(data)
             THEN [found |-> TRUE, q |-> pos, labels |-> labels,
                   target |-> (l % 64) * 256 + data[pos + 2]]
             ELSE IF l >= 1 /\ l <= 63 /\ pos + 1 + l <= Len(data)
             THEN LiteralsThenPointer(data, pos + 1 + l,
                                      Append(labels, SubSeq(data, pos + 2, pos + 1 + l)))
             ELSE [found |-> FALSE]

\* The cursor after a decoded name that ends in a pointer at q is q + 2
\* (lib.rs:240-243: the position is saved before the jump and set again).
CursorAfterPointer ==
    (call.op = "from_reader" /\ IsOk(call.out)) =>
        LET lp == LiteralsThenPointer(call.data, call.pos, << >>)
        IN  lp.found => call.out.pos = lp.q + 2

\* C16: the cursor after a decoded name that ends in a pointer at q is q + 2,
\* and the name is the literal labels read before the pointer followed by the
\* labels of the name the pointer leads to.
C16_CursorAndLabelsAfterPointer ==
    (call.op = "from_reader" /\ IsOk(call.out)) =>
        LET lp == LiteralsThenPointer(call.data, call.pos, << >>)
        IN  lp.found =>
              /\ call.out.pos = lp.q + 2
              /\ LET pointed == DomainName_from_reader(call.data, lp.target).val
                 IN  call.out.val =
                       Join(lp.labels \o (IF pointed = << >> THEN << >> ELSE << pointed >>))

\* C17: after a record decodes, the cursor is at the end of its RDATA, the
\* offset of the RDATA plus RDLENGTH, whatever its type.
C17_RdataConsumed ==
    (call.op = "record_from_reader" /\ IsOk(call.out)) =>
        call.out.pos = call.rdata_at + Len(call.rdata)

\* Whether the decoder, reading the labels of the name at pos, comes to a
\* length byte whose top two bits are 01 or 10.
RECURSIVE MeetsReservedLength(_, _)
MeetsReservedLength(data, pos) ==
    IF pos >= Len(data) THEN FALSE
    ELSE LET l == data[pos + 1]
         IN  IF l >= 64 /\ l <= 191 THEN TRUE
             ELSE IF l >= 1 /\ l <= 63 THEN MeetsReservedLength(data, pos + 1 + l)
             ELSE FALSE

\* C18: a length byte whose top two bits are 01 or 10 makes decoding fail
\* with InvalidFormat.
C18_ReservedLengthRejected ==
    (call.op = "from_reader" /\ MeetsReservedLength(call.data, call.pos))
        => IsErr(call.out, "InvalidFormat")

\* C19: an iteration of the loop of resolve returns, or goes on with a
\* nameserver address taken from the response; one whose response has an A
\* record in the answer section returns.
C19_IterationReturnsOrMovesOn ==
    (last.some /\ IsOk(last.resp)) =>
        /\ last.ret.some \/ last.branch \in { "glue", "ns" }
        /\ HasType(last.resp.val.answers, TypeField_A) => last.ret.some

====
